---- MODULE Spec2Model ----
(***************************************************************************)
(* A model of src/src/malloc.c: a replacement malloc/free that keeps every *)
(* block it ever obtained from sbrk() in one singly linked chain           *)
(* (FreeList), with a compile-time fit policy, split on allocation and     *)
(* coalesce on free.                                                       *)
(*                                                                         *)
(* Memory is a function from addresses to struct block values.  Addresses  *)
(* are integers: arena headers are the successive values of the program    *)
(* break; TempAddr is the address of the local `struct block temp` that    *)
(* malloc links into the chain when it splits (the object dies when malloc *)
(* returns, so its bytes are rewritten by whatever runs on the stack       *)
(* afterwards: StackReuse); JunkAddr stands for any other mapped address a *)
(* rewritten pointer may hold, and WILD for an unmapped one.               *)
(*                                                                         *)
(* The numbers are those of an ILP32 build (size_t of 32 bits, a header of *)
(* 12 bytes); an LP64 build differs in these two numbers only.             *)
(***************************************************************************)
EXTENDS Integers, Sequences, FiniteSets, TLC

\* ---------------------------------------------------------------- bounds
\* calls that return (malloc of a size > 0, free of a pointer) in one run:
MaxCalls == 4          \* of any build (Spec)
MaxDeep == 5           \* of one build (SpecFirst, SpecBest)
MaxDouble == 6         \* of the first-fit build, freeing twice (SpecDouble)
MaxLong == 6           \* of one build, each pointer freed once (SpecWorst,
                       \* SpecNext)

\* sizes a caller asks for (aligned: 0, 8, 12, 20)
ReqSizes == {0, 8, 10, 20}
\* sizes that rewritten stack bytes may read as
GarbageSizes == {6, 12}

\* ------------------------------------------------------------- addresses
NULL == 0
WILD == -1
HeapBase == 4096
TempAddr == 8000
JunkAddr == 9001
HDR == 12
SizeWords == 1073741824

Policies == {"FIRST", "BEST", "WORST", "NEXT"}
Builds == Policies \cup {"NONE"}

VARIABLES
    mem,                \* address -> [size, next, free, dirty]
    FreeList,           \* head of the chain
    Final,              \* next-fit cursor
    brk,                \* the program break
    fit,                \* the policy compiled in
    atexit_registered,
    num_mallocs, num_frees, num_reuses, num_grows, num_splits,
    num_coalesces, num_blocks, num_requested, max_heap,
    status,             \* "ok", "abort" (assert), "segv", "hang"
    step,               \* kind of the last step taken
    lastOp,             \* what the last malloc/free call did
    handed,             \* every pointer malloc has returned
    live                \* pointers returned and not freed since

stats == <<num_mallocs, num_frees, num_reuses, num_grows, num_splits,
           num_coalesces, num_blocks, num_requested, max_heap>>
heap == <<mem, FreeList, Final, brk>>
vars == <<mem, FreeList, Final, brk, fit, atexit_registered, num_mallocs,
          num_frees, num_reuses, num_grows, num_splits, num_coalesces,
          num_blocks, num_requested, max_heap, status, step, lastOp,
          handed, live>>

\* ------------------------------------------------------------ primitives
\* ALIGN4 written without the decrement, (((s) >> 2) << 2) + 4: it rounds 0
\* up to 4 (the variant C2 is tried against)
ALIGN4_NoDecrement(s) == 4 * (s \div 4) + 4

\* #define ALIGN4(s) (((((s)-1) >> 2) << 2) + 4), on size_t: s-1 wraps for
\* s = 0, and the final +4 wraps again.  Computed in 4-byte words.
ALIGN4(s) ==
    LET q == IF s = 0 THEN SizeWords - 1 ELSE (s - 1) \div 4
    IN  4 * ((q + 1) % SizeWords)

BLOCK_DATA(b) == b + HDR
BLOCK_HEADER(ptr) == ptr - HDR

Write(M, a, rec) == (a :> rec) @@ M

IsArena(a) == a >= HeapBase /\ a < brk

\* ---------------------------------------------------------- findFreeBlock
\* Every walk returns [st, curr, last, n, fin]: how the loop ended ("ok", or
\* "segv" on a read through an unmapped pointer, or "hang" when the loop
\* comes back to a block it has left with nothing changed), the block it
\* returns, *last, num_blocks, and Final.  `seen` is proof bookkeeping only.

Res(st, curr, last, n, fin) ==
    [st |-> st, curr |-> curr, last |-> last, n |-> n, fin |-> fin]

RECURSIVE FirstWalk_Strict(_, _, _, _, _, _)
\* first fit that wants curr->size > size (the variant C7 is tried against)
FirstWalk_Strict(M, size, curr, last, n, seen) ==
    IF curr = NULL THEN Res("ok", NULL, last, n, Final)
    ELSE IF curr \notin DOMAIN M THEN Res("segv", NULL, last, n, Final)
    ELSE IF M[curr].free /\ M[curr].size > size
         THEN Res("ok", curr, last, n, Final)
    ELSE IF curr \in seen THEN Res("hang", NULL, last, n, Final)
    ELSE FirstWalk_Strict(M, size, M[curr].next, curr, n + 1,
                          seen \cup {curr})

RECURSIVE FirstWalk(_, _, _, _, _, _)
\* while (curr && !(curr->free && curr->size >= size))
\*    { *last = curr; curr = curr->next; num_blocks++; }
FirstWalk(M, size, curr, last, n, seen) ==
    IF curr = NULL THEN Res("ok", NULL, last, n, Final)
    ELSE IF curr \notin DOMAIN M THEN Res("segv", NULL, last, n, Final)
    ELSE IF M[curr].free /\ M[curr].size >= size
         THEN Res("ok", curr, last, n, Final)
    ELSE IF curr \in seen THEN Res("hang", NULL, last, n, Final)
    ELSE FirstWalk(M, size, M[curr].next, curr, n + 1, seen \cup {curr})

RECURSIVE BestWalk_Largest(_, _, _, _, _, _, _)
\* best fit with the comparison turned round, curr->size > best->size (the
\* variant C10 is tried against)
BestWalk_Largest(M, size, curr, best, last, n, seen) ==
    IF curr = NULL THEN Res("ok", best, last, n, Final)
    ELSE IF curr \notin DOMAIN M THEN Res("segv", NULL, last, n, Final)
    ELSE IF curr \in seen THEN Res("hang", NULL, last, n, Final)
    ELSE LET take == /\ M[curr].free
                     /\ M[curr].size >= size
                     /\ (best = NULL \/ M[curr].size > M[best].size)
         IN  IF take /\ M[curr].size = size
             THEN Res("ok", curr, last, n + 1, Final)
             ELSE BestWalk_Largest(M, size, M[curr].next,
                                   IF take THEN curr ELSE best, last, n + 1,
                                   seen \cup {curr})

RECURSIVE BestWalk(_, _, _, _, _, _, _)
\* the loop never writes *last: it stays what malloc passed in
BestWalk(M, size, curr, best, last, n, seen) ==
    IF curr = NULL THEN Res("ok", best, last, n, Final)
    ELSE IF curr \notin DOMAIN M THEN Res("segv", NULL, last, n, Final)
    ELSE IF curr \in seen THEN Res("hang", NULL, last, n, Final)
    ELSE LET take == /\ M[curr].free
                     /\ M[curr].size >= size
                     /\ (best = NULL \/ M[curr].size < M[best].size)
         IN  IF take /\ M[curr].size = size
             THEN Res("ok", curr, last, n + 1, Final)
             ELSE BestWalk(M, size, M[curr].next,
                           IF take THEN curr ELSE best, last, n + 1,
                           seen \cup {curr})

RECURSIVE WorstWalk(_, _, _, _, _, _, _, _)
\* abs(curr->size - size) > max, then max = curr->size (the raw size)
WorstWalk(M, size, curr, worst, max, last, n, seen) ==
    IF curr = NULL THEN Res("ok", worst, last, n, Final)
    ELSE IF curr \notin DOMAIN M THEN Res("segv", NULL, last, n, Final)
    ELSE IF curr \in seen THEN Res("hang", NULL, last, n, Final)
    ELSE LET take == /\ M[curr].free
                     /\ M[curr].size > size
                     /\ M[curr].size - size > max
         IN  WorstWalk(M, size, M[curr].next,
                       IF take THEN curr ELSE worst,
                       IF take THEN M[curr].size ELSE max,
                       curr, n + 1, seen \cup {curr})

RECURSIVE NextWalk(_, _, _, _, _, _)
\* while (curr && !(curr->free && curr->size >= size)) ...;  Final = curr;
NextWalk(M, size, curr, last, n, seen) ==
    IF curr = NULL THEN Res("ok", NULL, last, n, NULL)
    ELSE IF curr \notin DOMAIN M THEN Res("segv", NULL, last, n, Final)
    ELSE IF M[curr].free /\ M[curr].size >= size
         THEN Res("ok", curr, last, n, curr)
    ELSE IF curr \in seen THEN Res("hang", NULL, last, n, Final)
    ELSE NextWalk(M, size, M[curr].next, curr, n + 1, seen \cup {curr})

FirstFit(M, size, last) == FirstWalk(M, size, FreeList, last, 0, {})
BestFit(M, size, last) == BestWalk(M, size, FreeList, NULL, last, 0, {})
WorstFit(M, size, last) == WorstWalk(M, size, FreeList, NULL, 0, last, 0, {})
\* if (Final == NULL) Final = curr;  curr = Final;  ...  Final = curr;
NextFit(M, size, last) ==
    NextWalk(M, size, IF Final = NULL THEN FreeList ELSE Final, last, 0, {})
\* no policy macro defined: every #if block is compiled out
NoFit(M, size, last) == Res("ok", FreeList, last, 0, Final)

findFreeBlock(M, size, last) ==
    CASE fit = "FIRST" -> FirstFit(M, size, last)
      [] fit = "BEST"  -> BestFit(M, size, last)
      [] fit = "WORST" -> WorstFit(M, size, last)
      [] fit = "NEXT"  -> NextFit(M, size, last)
      [] OTHER         -> NoFit(M, size, last)

\* --------------------------------------------------------------- garbage
\* What the bytes of a dead stack frame, or of memory that is no block, may
\* read as.
GarbageRecs ==
    [size : GarbageSizes,
     next : {NULL, WILD, TempAddr, JunkAddr, FreeList},
     free : BOOLEAN, dirty : BOOLEAN]

JunkRecs ==
    [size : {12}, next : {NULL}, free : BOOLEAN, dirty : {FALSE}]

ZeroRec == [size |-> 0, next |-> NULL, free |-> FALSE, dirty |-> FALSE]

\* JunkAddr is read only when some pointer holds it; its bytes belong to
\* someone else, so every call finds them in any state.
JunkChoices(ptr) ==
    IF \/ Final = JunkAddr
       \/ ptr = BLOCK_DATA(JunkAddr)
       \/ \E a \in DOMAIN mem : mem[a].next = JunkAddr
    THEN JunkRecs ELSE {ZeroRec}

Overlay(j) == Write(mem, JunkAddr, j)
Strip(M) == [a \in DOMAIN M \ {JunkAddr} |-> M[a]]

\* ---------------------------------------------------------------- malloc
\* malloc(), lines 230-243: `struct block temp` is a local of malloc; its
\* dirty field is never assigned and its next field only when the found
\* block has a successor, so both keep the bytes the frame held (u when the
\* frame was never written by this program).
Split(M, next, size, u) ==
    LET M0 == IF TempAddr \in DOMAIN M THEN M ELSE Write(M, TempAddr, u)
        M1 == [M0 EXCEPT ![TempAddr].size = M0[next].size - size]
        M2 == [M1 EXCEPT ![TempAddr].free = TRUE]
        M3 == IF M2[next].next # NULL
              THEN [M2 EXCEPT ![TempAddr].next = M2[next].next] ELSE M2
        M4 == [M3 EXCEPT ![next].next = TempAddr]
    IN  [M4 EXCEPT ![next].size = size]

UninitChoices(M, next) ==
    IF TempAddr \in DOMAIN M THEN {ZeroRec}
    ELSE [size : {0}, free : {FALSE}, dirty : BOOLEAN,
          next : IF M[next].next # NULL THEN {NULL}
                 ELSE {NULL, WILD, TempAddr, JunkAddr, FreeList}]

\* growHeap without num_grows++ (the variant C8 is tried against)
growHeap_NoCount(M, last, size) ==
    LET curr == brk
        M1 == IF last # NULL THEN [M EXCEPT ![last].next = curr] ELSE M
    IN  [M |-> Write(M1, curr, [size |-> size, next |-> NULL,
                                free |-> FALSE, dirty |-> FALSE]),
         curr |-> curr,
         head |-> IF FreeList = NULL THEN curr ELSE FreeList,
         brk |-> brk + HDR + size,
         grows |-> num_grows,
         max |-> IF size > max_heap THEN size ELSE max_heap]

\* growHeap(), lines 158-194, when sbrk() extends the segment.  The new
\* bytes come zero-filled from the kernel and dirty is not assigned.
growHeap(M, last, size) ==
    LET curr == brk
        M1 == IF last # NULL THEN [M EXCEPT ![last].next = curr] ELSE M
    IN  [M |-> Write(M1, curr, [size |-> size, next |-> NULL,
                                free |-> FALSE, dirty |-> FALSE]),
         curr |-> curr,
         head |-> IF FreeList = NULL THEN curr ELSE FreeList,
         brk |-> brk + HDR + size,
         grows |-> num_grows + 1,
         max |-> IF size > max_heap THEN size ELSE max_heap]

MarkBusy(M, next) == [M EXCEPT ![next].free = FALSE, ![next].dirty = TRUE]

\* the record of a call: its argument, the aligned size, what it returned,
\* what the search found, whether it grew or split, whether sbrk refused,
\* the size of the block concerned (malloc: the block returned, at return;
\* free: the block freed, at entry) and the bytes it found at JunkAddr
Op(kind, arg, asize, ret, found, grew, split, denied, cap, junk) ==
    [kind |-> kind, arg |-> arg, asize |-> asize, ret |-> ret,
     found |-> found, grew |-> grew, split |-> split, denied |-> denied,
     cap |-> cap, junk |-> junk]

\* a call that does not return: assert() aborts, a wild read faults, or a
\* loop never ends
Dies(how, kind, arg, asize, denied, j) ==
    /\ status' = how
    /\ step' = kind
    /\ lastOp' = Op(kind, arg, asize, NULL, NULL, FALSE, FALSE, denied, 0, j)
    /\ UNCHANGED <<heap, fit, stats, handed, live>>

MallocZero(sz) ==
    /\ step' = "malloc"
    /\ lastOp' = Op("malloc", sz, 0, NULL, NULL, FALSE, FALSE, FALSE, 0,
                    ZeroRec)
    /\ UNCHANGED <<heap, fit, stats, status, handed, live>>

MallocBody(sz, size, j, M0, f) ==
    LET willSplit == f.curr # NULL /\ size < M0[f.curr].size
        mustGrow == f.curr = NULL
    IN  \E granted \in (IF mustGrow THEN BOOLEAN ELSE {TRUE}) :
        \E u \in (IF willSplit THEN UninitChoices(M0, f.curr) ELSE {ZeroRec}) :
        IF mustGrow /\ ~granted
        THEN \* sbrk() returns -1 and assert(curr == prev) fails
             Dies("abort", "malloc", sz, size, TRUE, j)
        ELSE
        LET M1 == IF willSplit THEN Split(M0, f.curr, size, u) ELSE M0
            g == growHeap(M1, f.last, size)
            M2 == IF mustGrow THEN g.M ELSE M1
            next == IF mustGrow THEN g.curr ELSE f.curr
            reuse == M2[next].dirty
        IN  /\ mem' = Strip(MarkBusy(M2, next))
            /\ FreeList' = (IF mustGrow THEN g.head ELSE FreeList)
            /\ brk' = (IF mustGrow THEN g.brk ELSE brk)
            /\ max_heap' = (IF mustGrow THEN g.max ELSE max_heap)
            /\ num_grows' = (IF mustGrow THEN g.grows ELSE num_grows)
            /\ num_splits' = num_splits + (IF willSplit THEN 1 ELSE 0)
            /\ num_reuses' = num_reuses + (IF reuse THEN 1 ELSE 0)
            /\ num_mallocs' = num_mallocs + 1
            /\ num_requested' = num_requested + size
            /\ Final' = f.fin
            /\ num_blocks' = f.n
            /\ handed' = handed \cup {BLOCK_DATA(next)}
            /\ live' = live \cup {BLOCK_DATA(next)}
            /\ step' = "malloc"
            /\ lastOp' = Op("malloc", sz, size, BLOCK_DATA(next), f.curr,
                            mustGrow, willSplit, FALSE, M2[next].size, j)
            /\ UNCHANGED <<fit, status, num_frees, num_coalesces>>

Malloc(bound) ==
    /\ status = "ok"
    /\ num_mallocs + num_frees < bound
    /\ atexit_registered' = 1
    /\ \E sz \in ReqSizes :
         LET size == ALIGN4(sz)
         IN  IF size = 0 THEN MallocZero(sz)
             ELSE \E j \in JunkChoices(NULL) :
                  LET M0 == Overlay(j)
                      f == findFreeBlock(M0, size, FreeList)
                  IN  IF f.st # "ok"
                      THEN Dies(f.st, "malloc", sz, size, FALSE, j)
                      ELSE MallocBody(sz, size, j, M0, f)

\* ------------------------------------------------------------------ free
\* lines 297-311: if (curr->next) { rightBlock = curr->next; if free ... }
\* returns [st, M, n] with n the coalesces counted
Forward(M, curr) ==
    LET right == M[curr].next
    IN  IF right = NULL THEN [st |-> "ok", M |-> M, n |-> 0]
        ELSE IF right \notin DOMAIN M THEN [st |-> "segv", M |-> M, n |-> 0]
        ELSE IF M[right].free
             THEN LET M1 == [M EXCEPT ![curr].size = @ + M[right].size]
                  IN  [st |-> "ok",
                       M |-> [M1 EXCEPT ![curr].next = M1[right].next],
                       n |-> 1]
        ELSE [st |-> "ok", M |-> M, n |-> 0]

\* lines 319-326: `previous->next == NULL;` is a comparison, so the link is
\* written only when curr has a successor
Relink(M, previous, curr) ==
    IF M[curr].next = NULL THEN M
    ELSE [M EXCEPT ![previous].next = M[curr].next]

RECURSIVE Backward(_, _, _, _, _)
\* lines 312-329: while (tempBlock) { ...; tempBlock = tempBlock->next; }
Backward(M, curr, tempBlock, n, seen) ==
    IF tempBlock = NULL THEN [st |-> "ok", M |-> M, n |-> n]
    ELSE IF tempBlock \notin DOMAIN M THEN [st |-> "segv", M |-> M, n |-> n]
    ELSE IF tempBlock \in seen THEN [st |-> "hang", M |-> M, n |-> n]
    ELSE LET hit == M[tempBlock].next = curr /\ M[tempBlock].free
             M1 == [M EXCEPT ![tempBlock].size = @ + M[curr].size]
             M2 == IF hit THEN Relink(M1, tempBlock, curr) ELSE M
         IN  Backward(M2, curr, M2[tempBlock].next,
                      n + (IF hit THEN 1 ELSE 0), seen \cup {tempBlock})

FreeNull ==
    /\ step' = "free"
    /\ lastOp' = Op("free", NULL, 0, NULL, NULL, FALSE, FALSE, FALSE, 0,
                    ZeroRec)
    /\ UNCHANGED <<heap, fit, stats, status, handed, live>>

FreeBody(ptr, j, M0) ==
    LET curr == BLOCK_HEADER(ptr)
        M1 == [M0 EXCEPT ![curr].free = TRUE]
        fw == Forward(M1, curr)
        bw == Backward(fw.M, curr, FreeList, 0, {})
    IN  \* assert(curr->free == 0)
        IF M0[curr].free THEN Dies("abort", "free", ptr, 0, FALSE, j)
        ELSE IF fw.st # "ok" THEN Dies(fw.st, "free", ptr, 0, FALSE, j)
        ELSE IF bw.st # "ok" THEN Dies(bw.st, "free", ptr, 0, FALSE, j)
        ELSE /\ mem' = Strip(bw.M)
             /\ num_frees' = num_frees + 1
             /\ num_coalesces' = num_coalesces + fw.n + bw.n
             /\ live' = live \ {ptr}
             /\ step' = "free"
             /\ lastOp' = Op("free", ptr, 0, NULL, NULL, FALSE, FALSE,
                             FALSE, M0[curr].size, j)
             /\ UNCHANGED <<FreeList, Final, brk, fit, num_mallocs,
                            num_reuses, num_grows, num_splits, num_blocks,
                            num_requested, max_heap, status, handed>>

\* the caller passes NULL or a pointer malloc once returned (possibly one it
\* has freed already)
Free(bound) ==
    /\ status = "ok"
    /\ num_mallocs + num_frees < bound
    /\ UNCHANGED atexit_registered
    /\ \E ptr \in handed \cup {NULL} :
         IF ptr = NULL THEN FreeNull
         ELSE \E j \in JunkChoices(ptr) : FreeBody(ptr, j, Overlay(j))

\* free() as a caller uses it who frees each pointer at most once: NULL or a
\* pointer that malloc returned and that has not been freed since
ValidFree(bound) ==
    /\ status = "ok"
    /\ num_mallocs + num_frees < bound
    /\ UNCHANGED atexit_registered
    /\ \E ptr \in live \cup {NULL} :
         IF ptr = NULL THEN FreeNull
         ELSE \E j \in JunkChoices(ptr) : FreeBody(ptr, j, Overlay(j))

\* ----------------------------------------------------------- environment
\* After malloc has returned, the frame that held `temp` is reused by the
\* caller and by later calls: the bytes at TempAddr change to anything.
StackReuse ==
    /\ status = "ok"
    /\ step # "reuse"
    /\ TempAddr \in DOMAIN mem
    /\ \E rec \in GarbageRecs :
         /\ rec # mem[TempAddr]
         /\ mem' = [mem EXCEPT ![TempAddr] = rec]
    /\ step' = "reuse"
    /\ UNCHANGED <<FreeList, Final, brk, fit, atexit_registered, stats,
                   status, lastOp, handed, live>>

\* ------------------------------------------------------------------ spec
InitOf(builds) ==
    /\ mem = <<>>
    /\ FreeList = NULL
    /\ Final = NULL
    /\ brk = HeapBase
    /\ fit \in builds
    /\ atexit_registered = 0
    /\ num_mallocs = 0 /\ num_frees = 0 /\ num_reuses = 0
    /\ num_grows = 0 /\ num_splits = 0 /\ num_coalesces = 0
    /\ num_blocks = 0 /\ num_requested = 0 /\ max_heap = 0
    /\ status = "ok"
    /\ step = "init"
    /\ lastOp = Op("init", 0, 0, NULL, NULL, FALSE, FALSE, FALSE, 0, ZeroRec)
    /\ handed = {}
    /\ live = {}

Init == InitOf(Builds)
InitFirst == InitOf({"FIRST"})
InitBest == InitOf({"BEST"})
InitWorst == InitOf({"WORST"})
InitNext == InitOf({"NEXT"})

Next == Malloc(MaxCalls) \/ Free(MaxCalls) \/ StackReuse
NextDeep == Malloc(MaxDeep) \/ Free(MaxDeep) \/ StackReuse
NextDouble == Malloc(MaxDouble) \/ Free(MaxDouble) \/ StackReuse
NextValid == Malloc(MaxCalls) \/ ValidFree(MaxCalls) \/ StackReuse
NextLong == Malloc(MaxLong) \/ ValidFree(MaxLong) \/ StackReuse

\* every build, every call sequence up to MaxCalls
Spec == Init /\ [][Next]_vars
\* one build, longer call sequences
SpecFirst == InitFirst /\ [][NextDeep]_vars
SpecBest == InitBest /\ [][NextDeep]_vars
SpecDouble == InitFirst /\ [][NextDouble]_vars
\* every build, each pointer freed at most once
SpecValid == Init /\ [][NextValid]_vars
\* one build, each pointer freed at most once, call sequences up to MaxLong
SpecWorst == InitWorst /\ [][NextLong]_vars
SpecNext == InitNext /\ [][NextLong]_vars

\* ================================================================ claims
\* The chain as a reader of memory M sees it from block h: the blocks in the
\* order a walk visits them, up to NULL, an unmapped pointer or a repeat.
RECURSIVE ChainSeq(_, _, _)
ChainSeq(M, a, acc) ==
    IF a = NULL \/ a \notin DOMAIN M \/ a \in {acc[i] : i \in DOMAIN acc}
    THEN acc
    ELSE ChainSeq(M, M[a].next, Append(acc, a))

Chain(M, h) == LET q == ChainSeq(M, h, <<>>) IN {q[i] : i \in DOMAIN q}

\* the memory the call just made has read: mem with the bytes it found at
\* JunkAddr
SeenMem == Write(mem, JunkAddr, lastOp'.junk)

MallocReturns == step' = "malloc" /\ status' = "ok" /\ lastOp'.ret # NULL
FreeReturns == step' = "free" /\ status' = "ok" /\ lastOp'.arg # NULL

\* ------------------------------------------------------------------- C1
\* C1 (as claimed): when blocks A and B are adjacent in the chain (A.next = B)
\* and the second of them is freed while the other is already free, one free
\* block is left in their place: A is free with size >= size(A) + size(B),
\* A.next is B's former successor and B is no longer linked in the chain.
\* Stated for arena blocks of a heap that has never split.
C1_Coalesce ==
    [][ \A a, b \in DOMAIN mem :
          ( /\ FreeReturns
            /\ TempAddr \notin DOMAIN mem
            /\ mem[a].next = b
            /\ \/ lastOp'.arg = BLOCK_DATA(a) /\ ~mem[a].free /\ mem[b].free
               \/ lastOp'.arg = BLOCK_DATA(b) /\ ~mem[b].free /\ mem[a].free )
          => /\ mem'[a].free
             /\ mem'[a].size >= mem[a].size + mem[b].size
             /\ mem'[a].next = mem[b].next
             /\ b \notin Chain(mem', FreeList') ]_vars

\* ------------------------------------------------------------------- C2
\* C2: malloc(0) returns NULL and changes neither the chain (the head, any
\* block's size, next, free or dirty), nor the next-fit cursor, nor any of
\* the nine statistics counters; the process goes on.
C2_ZeroIsNoOp ==
    [][ (step' = "malloc" /\ lastOp'.arg = 0)
        => /\ lastOp'.ret = NULL
           /\ status' = "ok"
           /\ UNCHANGED <<mem, FreeList, Final, stats>> ]_vars

\* malloc(0) has been called on a heap that holds blocks and counters
C2_Witness ==
    /\ step = "malloc" /\ lastOp.arg = 0 /\ lastOp.ret = NULL
    /\ FreeList # NULL /\ num_mallocs > 1 /\ num_frees > 0

\* ------------------------------------------------------------------- C3
\* C3 (as claimed): a malloc that finds no block and whose sbrk() is refused
\* returns NULL without aborting, and leaves the chain and the allocation,
\* reuse, growth, split, requested-bytes and max-growth counters as they were.
C3_DeniedReturnsNull ==
    [][ (step' = "malloc" /\ lastOp'.denied)
        => /\ status' = "ok"
           /\ lastOp'.ret = NULL
           /\ UNCHANGED <<mem, FreeList, num_mallocs, num_reuses, num_grows,
                          num_splits, num_requested, max_heap>> ]_vars

\* ------------------------------------------------------------------- C4
\* C4 (as claimed): a malloc(size > 0) that returns gives a non-null pointer
\* that is the header address of the chosen block plus the header size, the
\* block has room for size bytes, and the pointer is a multiple of 4.
C4_PointerAndCapacity ==
    [][ (step' = "malloc" /\ status' = "ok" /\ lastOp'.arg > 0)
        => /\ lastOp'.ret # NULL
           /\ lastOp'.found # NULL => lastOp'.ret = lastOp'.found + HDR
           /\ lastOp'.cap >= lastOp'.arg
           /\ lastOp'.ret % 4 = 0 ]_vars

\* ------------------------------------------------------------------- C5
\* C5 (as claimed): when malloc splits a free block, the remainder linked
\* after the found block lies in the arena (between the first break and the
\* current one), is free, and its next is the found block's former successor.
C5_RemainderInArena ==
    [][ (MallocReturns /\ lastOp'.split /\ SeenMem[lastOp'.found].free)
        => LET found == lastOp'.found
               rem == mem'[found].next
           IN  /\ rem >= HeapBase /\ rem < brk'
               /\ mem'[rem].free
               /\ mem'[rem].next = SeenMem[found].next ]_vars

\* ------------------------------------------------------------------- C6
\* C6 (as claimed): free(p) of a pointer that malloc returned and that has
\* been freed since (p is not live) is stopped by assert(curr->free == 0)
\* before any change: the chain and the counters stay as they were.
\* Stated for the blocks whose header this program has written.
C6_DoubleFreeStopped ==
    [][ ( /\ step' = "free" /\ lastOp'.arg # NULL /\ lastOp'.arg \notin live
          /\ BLOCK_HEADER(lastOp'.arg) \in DOMAIN mem )
        => /\ status' = "abort"
           /\ UNCHANGED <<mem, FreeList, stats>> ]_vars

\* ------------------------------------------------------------------- C7
\* the blocks a walk from the head passes before it reaches block b
Before(M, b) ==
    LET q == ChainSeq(M, FreeList, <<>>)
    IN  {q[i] : i \in {k \in DOMAIN q : \A m \in 1..k : q[m] # b}}

Fits(M, a, size) == M[a].free /\ M[a].size >= size

\* the last call was free(p) of a live pointer, and now malloc(s) is called
\* with s at most the capacity p's block had
RoundTrip ==
    /\ fit = "FIRST"
    /\ status = "ok" /\ lastOp.kind = "free" /\ lastOp.arg # NULL
    /\ step' = "malloc" /\ lastOp'.arg > 0
    /\ lastOp'.asize <= lastOp.cap

\* C7 (as claimed): under first fit, free(p) followed by malloc(s) with s at
\* most the capacity of p's block, and no other call in between, returns p.
C7_RoundTripAlways ==
    [][ RoundTrip => lastOp'.ret = lastOp.arg ]_vars

\* C7 (amended): ... returns p when p's block is an arena block linked in the
\* chain and no block before it in the chain is free with room for the
\* aligned s at the time malloc is called.
C7_RoundTrip ==
    [][ ( /\ RoundTrip
          /\ IsArena(BLOCK_HEADER(lastOp.arg))
          /\ BLOCK_HEADER(lastOp.arg) \in Chain(SeenMem, FreeList)
          /\ \A a \in Before(SeenMem, BLOCK_HEADER(lastOp.arg)) :
                ~Fits(SeenMem, a, lastOp'.asize) )
        => status' = "ok" /\ lastOp'.ret = lastOp.arg ]_vars

\* a block that is not the head was freed and handed out again at once
C7_Witness ==
    /\ fit = "FIRST" /\ step = "malloc" /\ status = "ok"
    /\ lastOp.found # NULL /\ lastOp.found # FreeList
    /\ IsArena(lastOp.found)
    /\ num_frees = 1 /\ num_mallocs = 3

\* ------------------------------------------------------------------- C8
\* some free block of the chain satisfies a request of `size` under the
\* policy: room for size (first, best), more than size (worst), room for
\* size at or after the cursor (next)
Satisfiable(M, size) ==
    CASE fit = "WORST" ->
           \E a \in Chain(M, FreeList) : M[a].free /\ M[a].size > size
      [] fit = "NEXT" ->
           \E a \in Chain(M, IF Final = NULL THEN FreeList ELSE Final) :
              Fits(M, a, size)
      [] OTHER -> \E a \in Chain(M, FreeList) : Fits(M, a, size)

GrowthAsNeeded ==
    num_grows' = num_grows
                 + (IF Satisfiable(SeenMem, lastOp'.asize) THEN 0 ELSE 1)

C9_ReuseIffHandedBefore ==
    [][ MallocReturns
        => num_reuses' = num_reuses
                         + (IF lastOp'.ret \in handed THEN 1 ELSE 0) ]_vars

\* ------------------------------------------------------------------ C10
\* what best fit is to return: among the free blocks of the chain with room
\* for size, one of the smallest size, and of those the first in the chain
BestOf(M, size) ==
    LET q == ChainSeq(M, FreeList, <<>>)
        ok == {i \in DOMAIN q : Fits(M, q[i], size)}
        least == {i \in ok : \A k \in ok : M[q[i]].size <= M[q[k]].size}
    IN  IF ok = {} THEN NULL
        ELSE q[CHOOSE i \in least : \A k \in least : i <= k]

\* C10: under best fit a search that ends returns the smallest free block
\* with size >= S, the earliest of equal ones, and no block exactly when no
\* free block has size >= S.
C10_BestFit ==
    [][ ( /\ fit = "BEST" /\ step' = "malloc" /\ lastOp'.arg > 0
          /\ (status' = "ok" \/ lastOp'.denied) )
        => lastOp'.found = BestOf(SeenMem, lastOp'.asize) ]_vars

\* best fit has passed over a free head with room for the request and has
\* returned a later, smaller block
C10_Witness ==
    /\ fit = "BEST" /\ step = "malloc" /\ status = "ok"
    /\ lastOp.found # NULL /\ lastOp.found # FreeList
    /\ Fits(mem, FreeList, lastOp.asize)
    /\ mem[FreeList].size > lastOp.cap

\* ------------------------------------------------------------------ C11
\* the free blocks of the chain with more room than size
Roomier(M, size) ==
    {a \in Chain(M, FreeList) : M[a].free /\ M[a].size > size}

\* C11 (as claimed): under worst fit a search that ends returns a free block
\* with size > S whose surplus size - S is the greatest among the free blocks
\* with size > S, and no block exactly when no free block has size > S.
\* Stated for a heap that has never split.
C11_WorstFit ==
    [][ ( /\ fit = "WORST" /\ step' = "malloc" /\ lastOp'.arg > 0
          /\ TempAddr \notin DOMAIN mem
          /\ (status' = "ok" \/ lastOp'.denied) )
        => LET c == Roomier(SeenMem, lastOp'.asize)
               found == lastOp'.found
           IN  IF c = {} THEN found = NULL
               ELSE /\ found \in c
                    /\ \A a \in c : SeenMem[a].size - lastOp'.asize
                                      <= SeenMem[found].size - lastOp'.asize
      ]_vars

\* ------------------------------------------------------------------ C12
\* where the next search under next fit starts: at the cursor, or at the
\* head when the cursor is unset
StartOf(h, fin) == IF fin = NULL THEN h ELSE fin

\* the first block with room for size that a walk from block h reaches
FirstFrom(M, h, size) ==
    LET q == ChainSeq(M, h, <<>>)
        ok == {i \in DOMAIN q : Fits(M, q[i], size)}
    IN  IF ok = {} THEN NULL ELSE q[CHOOSE i \in ok : \A k \in ok : i <= k]

\* C12 (as claimed): under next fit, once a search has stopped at a block c
\* of the chain (the cursor), the search after the next malloc still starts
\* at c or further along the chain, also when that malloc missed and grew
\* the heap.  Stated for a heap that has never split.
C12_CursorPersists ==
    [][ ( /\ fit = "NEXT" /\ MallocReturns /\ lastOp'.arg > 0
          /\ TempAddr \notin DOMAIN mem
          /\ Final # NULL )
        => StartOf(FreeList', Final') \in Chain(mem', Final) ]_vars

\* What the code does instead: a search starts at the cursor (at the head
\* when the cursor is unset) and finds the first block from there that is
\* free with room for the request; a search that finds a block leaves the
\* cursor at it, and a search that misses, which leads to growth, leaves the
\* cursor unset, so that the search after it starts at the head again.
NextFitCursorRule ==
    [][ (fit = "NEXT" /\ MallocReturns /\ lastOp'.arg > 0)
        => /\ lastOp'.found
              = FirstFrom(SeenMem, StartOf(FreeList, Final), lastOp'.asize)
           /\ Final' = lastOp'.found
           /\ lastOp'.grew <=> lastOp'.found = NULL ]_vars

\* ------------------------------------------------------------------ C13
\* C13 (as claimed): in every build, the four policies and the one with no
\* policy selected, the block the search hands to a malloc that returns is
\* either no block or a block that is free and has size >= the aligned
\* request at that time, and malloc never returns a pointer that is live.
C13_FoundFreeAndFits ==
    [][ (step' = "malloc" /\ status' = "ok" /\ lastOp'.arg > 0)
        => /\ lastOp'.found # NULL
              => Fits(SeenMem, lastOp'.found, lastOp'.asize)
           /\ lastOp'.ret \notin live ]_vars

\* ------------------------------------------------------------------ C14
\* the bytes of the data region of the block that pointer p belongs to
Region(p) == p .. (p + mem[BLOCK_HEADER(p)].size - 1)

\* C14 (as claimed): when each pointer is freed at most once, the data
\* regions of any two live allocations are disjoint, and each lies inside
\* the arena, between the first break and the current one.
C14_LiveDisjoint ==
    status = "ok"
    => \A p \in live :
          /\ IsArena(BLOCK_HEADER(p))
          /\ \A x \in Region(p) : x >= HeapBase /\ x < brk
          /\ \A q \in live \ {p} :
                IsArena(BLOCK_HEADER(q)) => Region(p) \cap Region(q) = {}

\* ------------------------------------------------------------------ C15
\* C15 (as claimed): under each of the four policies a growth that succeeds
\* appends the new block at the tail of the chain: the new block's next is
\* null, the head is set on the first growth only, the former tail's next is
\* the new block, and every block that was reachable from the head is still
\* reachable.  Stated for a heap that has never split.
C15_GrowthAppends ==
    [][ ( /\ fit \in Policies /\ MallocReturns /\ lastOp'.grew
          /\ TempAddr \notin DOMAIN mem )
        => LET new == BLOCK_HEADER(lastOp'.ret)
               q == ChainSeq(mem, FreeList, <<>>)
           IN  /\ mem'[new].next = NULL
               /\ FreeList = NULL => FreeList' = new
               /\ FreeList # NULL
                  => /\ FreeList' = FreeList
                     /\ mem'[q[Len(q)]].next = new
               /\ Chain(mem, FreeList) \subseteq Chain(mem', FreeList')
      ]_vars

\* ------------------------------------------------------------------ C16
\* C16 (as claimed): in every state the chain from the head is acyclic, ends
\* in null and lists its blocks in strictly increasing address order.
\* Stated for the builds with a policy.
C16_ChainOrdered ==
    (fit \in Policies /\ status = "ok")
    => LET q == ChainSeq(mem, FreeList, <<>>)
       IN  /\ q # <<>> => mem[q[Len(q)]].next = NULL
           /\ \A i \in 1 .. (Len(q) - 1) : q[i] < q[i + 1]

\* ------------------------------------------------------------------ C17
\* C17 (as claimed): malloc splits the free block it found only when the
\* block's size exceeds the aligned request by more than a header; with a
\* surplus of at most one header the block keeps its size and no split is
\* counted; when it splits, the block's size becomes the aligned request
\* and num_splits goes up by one.
C17_SplitOnlyWithRoom ==
    [][ ( /\ MallocReturns /\ lastOp'.found # NULL
          /\ IsArena(lastOp'.found) /\ SeenMem[lastOp'.found].free )
        => LET found == lastOp'.found
               surplus == SeenMem[found].size - lastOp'.asize
           IN  /\ lastOp'.split => surplus > HDR
               /\ surplus <= HDR
                  => /\ mem'[found].size = SeenMem[found].size
                     /\ num_splits' = num_splits
               /\ lastOp'.split
                  => /\ mem'[found].size = lastOp'.asize
                     /\ num_splits' = num_splits + 1 ]_vars

\* ------------------------------------------------------------------ C18
\* C18 (as claimed): in every state every block of the chain has a size that
\* is a positive multiple of 4.  Stated for the builds with a policy.
C18_SizesAligned ==
    (fit \in Policies /\ status = "ok")
    => \A a \in Chain(mem, FreeList) :
          mem[a].size > 0 /\ mem[a].size % 4 = 0

\* ------------------------------------------------------------------ C19
\* C19 (as claimed): under next fit the cursor is in every state either
\* unset or a block that is linked in the chain (reachable from the head).
\* Stated for a heap that has never split.
C19_CursorLinked ==
    (fit = "NEXT" /\ status = "ok" /\ TempAddr \notin DOMAIN mem)
    => (Final = NULL \/ Final \in Chain(mem, FreeList))

\* ------------------------------------------------------------------ C20
RECURSIVE Claimed(_, _)
\* the bytes the blocks of sequence q claim: header and size of each
Claimed(M, q) ==
    IF q = <<>> THEN 0 ELSE HDR + M[Head(q)].size + Claimed(M, Tail(q))

\* C20 (as claimed): in every state the sum over the blocks of the chain of
\* header size + block size is at most the bytes obtained from the OS.
\* Stated for the builds with a policy.
C20_ChainWithinArena ==
    (fit \in Policies /\ status = "ok")
    => Claimed(mem, ChainSeq(mem, FreeList, <<>>)) <= brk - HeapBase

====
